---- MODULE Spec2Model ----
(***************************************************************************)
(* Booking and points engine of the dry-ice-cleaning backend: appointment  *)
(* booking and cancellation, the users' points balance, and the            *)
(* reconciliation of Stripe payments into point credits.                   *)
(*                                                                         *)
(* Every request handler is a process that advances one storage or         *)
(* network call (one `await`) at a time, so handlers interleave exactly    *)
(* where the event loop lets them.                                         *)
(***************************************************************************)
EXTENDS Integers, Sequences, FiniteSets, TLC

(* ------------------------------ bounds -------------------------------- *)
NumReq == 2          \* request handlers that can be in flight at once
MaxOps == 3          \* requests served in one behaviour
MaxFaults == 2       \* storage calls that may reject in one behaviour
MaxBack == 1         \* requested dates reach this many days before today
MaxAhead == 1        \* requested dates reach this many days after today
MaxTod == 1          \* distinct times of day a requested date may carry
NumUsers == 1        \* registered users
TodayDow == 5        \* weekday of today (0 = Sunday), as Date.getDay()
HolidayOffset == 3   \* days from today to the next listed holiday
NumSeeded == 2       \* appointments already booked when a run on a used calendar starts
ThreeMonths == 2     \* days from today to today + 3 months, scaled down
SixMonths == 4       \* days from today to today + 6 months, scaled down

(* --------------------------- program constants ------------------------ *)
BasicPrice == 1000
DeluxePrice == 1400
MaxActiveAppointments == 3
PackPointsIncluded == 2800
PackBonusPoints == 500
InitPoints == 2000
AdminPoints == 1000

Reqs == 1..NumReq
Users == 1..NumUsers
\* registered users who send no request in the run: the holder of the i-th
\* appointment booked by them, each holding at most three
Holder(i) == NumUsers + 1 + ((i - 1) \div MaxActiveAppointments)
DayOffsets == (0 - MaxBack)..MaxAhead
WindowDays == (0 - MaxBack)..(SixMonths + 1)
Tods == 0..MaxTod
ServiceTypes == {"basic", "deluxe"}
PurchaseOwner == 1

ActiveStatuses == {"pending", "confirmed", "in_progress"}

VARIABLES
    totalPoints,   \* User.totalPoints, per user
    appts,         \* the appointments collection, in insertion order
    purchase,      \* the Purchase document of the one payment reference
    stripe,        \* the PaymentIntent's status at Stripe
    events,        \* webhook event types Stripe has emitted for it
    req,           \* per request handler: operation, position, locals
    ops,           \* requests started so far
    faults,        \* storage calls rejected so far
    debited,       \* history: appointment ids whose price was debited
    refunds,       \* history: per appointment id, refunds credited
    credits,       \* history: times the pack's points were credited
    entered        \* history: times the Purchase became succeeded

vars == <<totalPoints, appts, purchase, stripe, events, req, ops, faults,
          debited, refunds, credits, entered>>

(* ------------------------------ dates --------------------------------- *)
\* A Date value: the calendar day (as an offset from today) and the time
\* of day it carries.  new Date(appointmentDate) keeps both.
MkDate(d, t) == [day |-> d, tod |-> t]

getTimeSlots == <<"14:00-16:00", "16:00-18:00", "18:00-20:00", "20:00-22:00">>

\* the listed holidays, as days from today: the next one and one four days
\* after it
ListedHolidays == {HolidayOffset, HolidayOffset + 4}

\* the calendar day of date.toISOString(), which is in UTC.  `day` is the
\* day in the server's zone (setHours, getDay); in the zone the scheduler
\* names, Europe/Copenhagen, local midnight (time of day 0) is 22:00 or
\* 23:00 UTC of the day before, and the later times of day modelled, from
\* UTC midnight on, are on the same UTC day
UtcDay(date) == IF date.tod = 0 THEN date.day - 1 ELSE date.day

\* Date.getDay(): the weekday in the server's zone
getDay(date) == (TodayDow + date.day + 7) % 7

getDateType(date) ==
    IF UtcDay(date) \in ListedHolidays THEN "holiday"
    ELSE IF getDay(date) \in {0, 6} THEN "weekend"
    ELSE "weekday"

PricingBase(serviceType) ==
    IF serviceType = "basic" THEN BasicPrice ELSE DeluxePrice

\* Math.round(x * 1.5) on a non-negative integer x
RoundHalfUp3to2(x) == (3 * x + 1) \div 2

calculateAppointmentPrice(serviceType, date) ==
    CASE getDateType(date) = "weekend" -> RoundHalfUp3to2(PricingBase(serviceType))
      [] getDateType(date) = "holiday" -> 2 * PricingBase(serviceType)
      [] OTHER -> PricingBase(serviceType)

(* --------------------------- appointments ----------------------------- *)
ApptIds == DOMAIN appts

IsActive(a) == a.status \in ActiveStatuses

\* Appointment.find({appointmentDate: {$gte: startOfDay, $lte: endOfDay},
\*                   status: {$in: active}}) : the day's active appointments
ActiveOnDay(day) ==
    {i \in ApptIds : appts[i].appointmentDate.day = day /\ IsActive(appts[i])}

bookedSlots(day) == {appts[i].timeSlot : i \in ActiveOnDay(day)}

FreeSlotIndexes(day) ==
    LET booked == bookedSlots(day)
    IN  {k \in DOMAIN getTimeSlots : getTimeSlots[k] \notin booked}

Min(S) == CHOOSE x \in S : \A y \in S : x <= y

\* variant of findAvailableSlot: the day's query has no status filter
findAvailableSlotAnyStatus(date) ==
    LET taken == {appts[i].timeSlot :
                     i \in {j \in ApptIds : appts[j].appointmentDate.day = date.day}}
        free == {k \in DOMAIN getTimeSlots : getTimeSlots[k] \notin taken}
    IN  IF free = {} THEN "null" ELSE getTimeSlots[Min(free)]

\* first slot, in declared order, no active appointment of the day holds
findAvailableSlot(date) ==
    LET free == FreeSlotIndexes(date.day)
    IN  IF free = {} THEN "null" ELSE getTimeSlots[Min(free)]

getUserAppointmentCount(userId) ==
    Cardinality({i \in ApptIds : appts[i].userId = userId /\ IsActive(appts[i])})

\* Date values compare by their instant: the day, then the time of day
DateLeq(a, b) == a.day < b.day \/ (a.day = b.day /\ a.tod <= b.tod)

\* the aggregate: active appointments with startDate <= appointmentDate <=
\* endDate, grouped by the date string, groups of 4 documents or more
getFullyBookedDatesInRange(startDate, endDate) ==
    LET matched == {i \in ApptIds : /\ DateLeq(startDate, appts[i].appointmentDate)
                                    /\ DateLeq(appts[i].appointmentDate, endDate)
                                    /\ IsActive(appts[i])}
    IN  {d \in {UtcDay(appts[i].appointmentDate) : i \in matched} :
            Cardinality({i \in matched : UtcDay(appts[i].appointmentDate) = d}) >= 4}

\* Math.ceil((threeMonthsFromNow - today) / one day), both at midnight
totalDaysInRange(today, threeMonthsFromNow) == threeMonthsFromNow.day - today.day

\* variant of validateBookingWindow: the 3-month comparison is strict
validateBookingWindowStrict(date) ==
    LET today == MkDate(0, 0)
        threeMonthsFromNow == MkDate(ThreeMonths, 0)
    IN  IF date.day < today.day THEN "past"
        ELSE IF date.day < threeMonthsFromNow.day THEN "valid"
        ELSE IF Cardinality(getFullyBookedDatesInRange(today, threeMonthsFromNow))
                   >= totalDaysInRange(today, threeMonthsFromNow)
             THEN IF date.day <= SixMonths THEN "valid" ELSE "within_6_months"
        ELSE "within_3_months"

\* the answer of validateBookingWindow: "valid", or which message rejects
validateBookingWindow(date) ==
    LET today == MkDate(0, 0)
        threeMonthsFromNow == MkDate(ThreeMonths, 0)
    IN  IF date.day < today.day THEN "past"
        ELSE IF date.day <= threeMonthsFromNow.day THEN "valid"
        ELSE IF Cardinality(getFullyBookedDatesInRange(today, threeMonthsFromNow))
                   >= totalDaysInRange(today, threeMonthsFromNow)
             THEN IF date.day <= SixMonths THEN "valid" ELSE "within_6_months"
        ELSE "within_3_months"

\* variant of DuplicateKey: the unique index covers every record, whatever
\* its status
DuplicateKeyAllRecords(doc) ==
    \E i \in ApptIds :
        /\ appts[i].appointmentDate = doc.appointmentDate
        /\ appts[i].timeSlot = doc.timeSlot

\* unique index {appointmentDate, timeSlot, status}, partial on active status
DuplicateKey(doc) ==
    /\ doc.status \in ActiveStatuses
    /\ \E i \in ApptIds :
          /\ appts[i].status \in ActiveStatuses
          /\ appts[i].appointmentDate = doc.appointmentDate
          /\ appts[i].timeSlot = doc.timeSlot
          /\ appts[i].status = doc.status

(* ----------------------------- requests ------------------------------- *)
NoDate == MkDate(0, 0)

Idle == [op |-> "none", pc |-> "idle", userId |-> 0, date |-> NoDate,
         serviceType |-> "none", timeSlot |-> "null", price |-> 0,
         balance |-> 0, appt |-> 0, seen |-> "none", event |-> "none",
         points |-> 0, credited |-> FALSE, result |-> "none",
         message |-> "none", mail |-> "none", notice |-> "none"]

Free(r) == req[r].pc \in {"idle", "done"}

\* the response is sent: the handler's working values are gone, what it
\* answered stays
Answered(rec, result) ==
    [rec EXCEPT !.pc = "done", !.result = result, !.serviceType = "none",
                !.price = 0, !.balance = 0, !.event = "none"]

Settle(rec) == IF rec.pc = "done" THEN Answered(rec, rec.result) ELSE rec

Begin(r, rec) ==
    /\ Free(r)
    /\ ops < MaxOps
    /\ ops' = ops + 1
    /\ req' = [req EXCEPT ![r] = Settle(rec)]

Goto(r, pc) == req' = [req EXCEPT ![r].pc = pc]

Finish(r, result) ==
    req' = [req EXCEPT ![r] = Answered(req[r], result)]

Init ==
    /\ totalPoints = [u \in Users |-> InitPoints]
    /\ appts = <<>>
    /\ purchase = [status |-> "none", pointsAwarded |-> 0, bonusPointsAwarded |-> 0]
    /\ stripe = "none"
    /\ events = {}
    /\ req = [r \in Reqs |-> Idle]
    /\ ops = 0
    /\ faults = 0
    /\ debited = {}
    /\ refunds = <<>>
    /\ credits = 0
    /\ entered = 0

\* the documents' fields as the schemas declare them
TypeOK ==
    /\ totalPoints \in [Users -> Int]
    /\ \A i \in ApptIds :
          /\ appts[i].userId \in Nat \ {0}
          /\ appts[i].serviceType \in ServiceTypes
          /\ appts[i].appointmentDate.day \in DayOffsets \cup WindowDays
          /\ appts[i].appointmentDate.tod \in Tods
          /\ \E k \in DOMAIN getTimeSlots : appts[i].timeSlot = getTimeSlots[k]
          /\ appts[i].status \in ActiveStatuses \cup {"completed", "cancelled"}
          /\ appts[i].price >= 0
    /\ purchase.status \in {"none", "pending", "processing", "succeeded",
                            "failed", "canceled"}
    /\ purchase.pointsAwarded \in {0, PackPointsIncluded}
    /\ purchase.bonusPointsAwarded \in {0, PackBonusPoints}
    /\ stripe \in {"none", "requires_payment_method", "succeeded", "canceled"}
    /\ events \subseteq {"succeeded", "payment_failed", "canceled"}
    /\ Len(refunds) = Len(appts)
    /\ debited \subseteq ApptIds

(* ------------------------- bookAppointment --------------------------- *)
\* validateBookingWindow, then the per-user limit read
BookStart(r, u, date, serviceType) ==
    /\ Begin(r, [Idle EXCEPT
           !.op = "book", !.userId = u, !.date = date,
           !.serviceType = serviceType,
           !.pc = IF validateBookingWindow(date) # "valid" THEN "done"
                  ELSE IF getUserAppointmentCount(u) >= MaxActiveAppointments
                       THEN "done" ELSE "book_slot",
           !.result = IF validateBookingWindow(date) # "valid" THEN "window_rejected"
                      ELSE IF getUserAppointmentCount(u) >= MaxActiveAppointments
                           THEN "limit_reached" ELSE "none",
           !.message = IF validateBookingWindow(date) # "valid"
                       THEN validateBookingWindow(date) ELSE "none"])
    /\ UNCHANGED <<totalPoints, appts, purchase, stripe, events, faults,
                   debited, refunds, credits, entered>>

\* findAvailableSlot and the price
BookFindSlot(r) ==
    /\ req[r].pc = "book_slot"
    /\ LET slot == findAvailableSlot(req[r].date) IN
         IF slot = "null"
         THEN Finish(r, "no_slot")
         ELSE req' = [req EXCEPT
                 ![r].pc = "book_user",
                 ![r].timeSlot = slot,
                 ![r].price = calculateAppointmentPrice(req[r].serviceType, req[r].date)]
    /\ UNCHANGED <<totalPoints, appts, purchase, stripe, events, ops, faults,
                   debited, refunds, credits, entered>>

\* variant of BookReadUser: the debit is applied before the balance check
BookReadUserDebitFirst(r) ==
    /\ req[r].pc = "book_user"
    /\ totalPoints' = [totalPoints EXCEPT ![req[r].userId] = @ - req[r].price]
    /\ IF totalPoints[req[r].userId] < req[r].price
       THEN Finish(r, "insufficient_points")
       ELSE req' = [req EXCEPT ![r].pc = "book_create",
                               ![r].balance = totalPoints[req[r].userId]]
    /\ UNCHANGED <<appts, purchase, stripe, events, ops, faults,
                   debited, refunds, credits, entered>>

\* User.findById and the balance check
BookReadUser(r) ==
    /\ req[r].pc = "book_user"
    /\ IF totalPoints[req[r].userId] < req[r].price
       THEN Finish(r, "insufficient_points")
       ELSE req' = [req EXCEPT ![r].pc = "book_create",
                               ![r].balance = totalPoints[req[r].userId]]
    /\ UNCHANGED <<totalPoints, appts, purchase, stripe, events, ops, faults,
                   debited, refunds, credits, entered>>

\* variant of NewAppointment: the price is the service's base price
NewAppointmentBasePrice(r) ==
    [userId |-> req[r].userId, serviceType |-> req[r].serviceType,
     appointmentDate |-> req[r].date, timeSlot |-> req[r].timeSlot,
     status |-> "confirmed", price |-> PricingBase(req[r].serviceType)]

NewAppointment(r) ==
    [userId |-> req[r].userId, serviceType |-> req[r].serviceType,
     appointmentDate |-> req[r].date, timeSlot |-> req[r].timeSlot,
     status |-> "confirmed", price |-> req[r].price]

\* AppointmentService.createAppointment: the save runs under the unique
\* index; a duplicate key rejects and the handler's catch answers 500
BookCreate(r) ==
    /\ req[r].pc = "book_create"
    /\ IF DuplicateKey(NewAppointment(r))
       THEN /\ Finish(r, "error500")
            /\ UNCHANGED <<appts, refunds>>
       ELSE /\ appts' = Append(appts, NewAppointment(r))
            /\ refunds' = Append(refunds, 0)
            /\ req' = [req EXCEPT ![r].pc = "book_debit",
                                  ![r].appt = Len(appts) + 1]
    /\ UNCHANGED <<totalPoints, purchase, stripe, events, ops, faults,
                   debited, credits, entered>>

\* AppointmentService.deductUserPoints: an unconditional $inc
deductUserPoints(userId, points) ==
    totalPoints' = [totalPoints EXCEPT ![userId] = @ - points]

BookDebit(r) ==
    /\ req[r].pc = "book_debit"
    /\ deductUserPoints(req[r].userId, req[r].price)
    /\ debited' = debited \cup {req[r].appt}
    /\ req' = [req EXCEPT ![r] = Answered([req[r] EXCEPT !.mail = "pending",
                                                         !.notice = "pending"],
                                          "booked")]
    /\ UNCHANGED <<appts, purchase, stripe, events, ops, faults,
                   refunds, credits, entered>>

\* the debit's storage call rejects: the catch answers 500 and nothing
\* is undone
BookDebitFails(r) ==
    /\ req[r].pc = "book_debit"
    /\ faults < MaxFaults
    /\ faults' = faults + 1
    /\ Finish(r, "error500")
    /\ UNCHANGED <<totalPoints, appts, purchase, stripe, events, ops,
                   debited, refunds, credits, entered>>

(* ----------------------- cancelAppointment (owner) ------------------- *)
\* variant of CancelCheck: only the 'cancelled' status is refused
CancelCheckCancelledOnly(id) ==
    CASE appts[id].status = "cancelled" -> "already_cancelled"
      [] OTHER -> "none"

CancelCheck(id) ==
    CASE appts[id].status = "cancelled" -> "already_cancelled"
      [] appts[id].status = "completed" -> "completed"
      [] OTHER -> "none"

\* Appointment.findOne({_id, userId}) and the status checks
CancelStart(r, u, id) ==
    /\ id \in ApptIds
    /\ Begin(r, [Idle EXCEPT
           !.op = "cancel", !.userId = u, !.appt = id,
           !.price = appts[id].price,
           !.pc = IF appts[id].userId # u \/ CancelCheck(id) # "none"
                  THEN "done" ELSE "cancel_save",
           !.result = IF appts[id].userId # u THEN "not_found"
                      ELSE CancelCheck(id)])
    /\ UNCHANGED <<totalPoints, appts, purchase, stripe, events, faults,
                   debited, refunds, credits, entered>>

\* appointment.status = 'cancelled'; appointment.save()
CancelSave(r) ==
    /\ req[r].pc = "cancel_save"
    /\ appts' = [appts EXCEPT ![req[r].appt].status = "cancelled"]
    /\ Goto(r, "cancel_refund")
    /\ UNCHANGED <<totalPoints, purchase, stripe, events, ops, faults,
                   debited, refunds, credits, entered>>

\* User.findByIdAndUpdate(userId, {$inc: {totalPoints: price}})
CancelRefund(r) ==
    /\ req[r].pc = "cancel_refund"
    /\ totalPoints' = [totalPoints EXCEPT ![req[r].userId] = @ + req[r].price]
    /\ refunds' = [refunds EXCEPT ![req[r].appt] = @ + 1]
    /\ req' = [req EXCEPT ![r] = Answered([req[r] EXCEPT !.credited = TRUE,
                                                         !.mail = "pending"],
                                          "cancelled")]
    /\ UNCHANGED <<appts, purchase, stripe, events, ops, faults,
                   debited, credits, entered>>

\* the refund's storage call rejects: the catch answers 500
CancelRefundFails(r) ==
    /\ req[r].pc = "cancel_refund"
    /\ faults < MaxFaults
    /\ faults' = faults + 1
    /\ Finish(r, "error500")
    /\ UNCHANGED <<totalPoints, appts, purchase, stripe, events, ops,
                   debited, refunds, credits, entered>>

(* ----------------------- cancelAppointment (admin) ------------------- *)
\* Appointment.findById and the status checks
AdminCancelStart(r, id) ==
    /\ id \in ApptIds
    /\ Begin(r, [Idle EXCEPT
           !.op = "admin_cancel", !.userId = appts[id].userId, !.appt = id,
           !.price = appts[id].price,
           !.pc = IF CancelCheck(id) # "none" THEN "done" ELSE "admin_cancel_save",
           !.result = CancelCheck(id)])
    /\ UNCHANGED <<totalPoints, appts, purchase, stripe, events, faults,
                   debited, refunds, credits, entered>>

\* appointment.save(), the cancellation email started and not awaited, then
\* the success response; no ledger call
AdminCancelSave(r) ==
    /\ req[r].pc = "admin_cancel_save"
    /\ appts' = [appts EXCEPT ![req[r].appt].status = "cancelled"]
    /\ req' = [req EXCEPT ![r] = Answered([req[r] EXCEPT !.mail = "pending"],
                                          "cancelled")]
    /\ UNCHANGED <<totalPoints, purchase, stripe, events, ops, faults,
                   debited, refunds, credits, entered>>

(* ----------------------- updateUserPoints (admin) -------------------- *)
NewPointsTotal(operation, current, points) ==
    CASE operation = "add" -> current + points
      [] operation = "subtract" -> current - points
      [] OTHER -> points

\* User.findById and the switch on the operation
AdminPointsStart(r, u, operation) ==
    /\ operation \in {"add", "subtract", "set"}
    /\ Begin(r, [Idle EXCEPT
           !.op = operation, !.userId = u,
           !.balance = totalPoints[u],
           !.points = NewPointsTotal(operation, totalPoints[u], AdminPoints),
           !.pc = IF operation = "subtract" /\ totalPoints[u] - AdminPoints < 0
                  THEN "done" ELSE "points_save",
           !.result = IF operation = "subtract" /\ totalPoints[u] - AdminPoints < 0
                      THEN "insufficient_points" ELSE "none"])
    /\ UNCHANGED <<totalPoints, appts, purchase, stripe, events, faults,
                   debited, refunds, credits, entered>>

\* user.totalPoints = newPointsTotal; user.save() writes the path when the
\* value differs from the one loaded
AdminPointsSave(r) ==
    /\ req[r].pc = "points_save"
    /\ totalPoints' = IF req[r].points # req[r].balance
                      THEN [totalPoints EXCEPT ![req[r].userId] = req[r].points]
                      ELSE totalPoints
    /\ Finish(r, "updated")
    /\ UNCHANGED <<appts, purchase, stripe, events, ops, faults,
                   debited, refunds, credits, entered>>

(* --------------------- purchases and the payment --------------------- *)
\* StripeService.createPaymentIntent: the intent at Stripe and the
\* Purchase record, status 'pending'
createPaymentIntent ==
    /\ purchase.status = "none"
    /\ purchase' = [purchase EXCEPT !.status = "pending"]
    /\ stripe' = "requires_payment_method"
    /\ UNCHANGED <<totalPoints, appts, events, req, ops, faults,
                   debited, refunds, credits, entered>>

\* Stripe: a payment attempt on the intent is declined; the intent waits
\* for another payment method and payment_intent.payment_failed is emitted
StripePaymentFails ==
    /\ stripe = "requires_payment_method"
    /\ "payment_failed" \notin events
    /\ events' = events \cup {"payment_failed"}
    /\ UNCHANGED <<totalPoints, appts, purchase, stripe, req, ops, faults,
                   debited, refunds, credits, entered>>

\* Stripe: the payment goes through; payment_intent.succeeded is emitted
StripePaymentSucceeds ==
    /\ stripe = "requires_payment_method"
    /\ stripe' = "succeeded"
    /\ events' = events \cup {"succeeded"}
    /\ UNCHANGED <<totalPoints, appts, purchase, req, ops, faults,
                   debited, refunds, credits, entered>>

\* StripeService.cancelPaymentIntent, first call: Stripe cancels an intent
\* that has not succeeded and emits payment_intent.canceled
CancelIntentStart(r) ==
    /\ stripe = "requires_payment_method"
    /\ Begin(r, [Idle EXCEPT !.op = "cancel_intent", !.pc = "cancel_intent_update"])
    /\ stripe' = "canceled"
    /\ events' = events \cup {"canceled"}
    /\ UNCHANGED <<totalPoints, appts, purchase, faults,
                   debited, refunds, credits, entered>>

\* Purchase.findOneAndUpdate({stripePaymentIntentId}, {status}): whatever
\* the status was
SetPurchaseStatus(status) ==
    /\ purchase' = IF purchase.status = "none" THEN purchase
                   ELSE [purchase EXCEPT !.status = status]
    /\ entered' = entered

\* StripeService.cancelPaymentIntent, second call
CancelIntentUpdate(r) ==
    /\ req[r].pc = "cancel_intent_update"
    /\ SetPurchaseStatus("canceled")
    /\ Finish(r, "canceled")
    /\ UNCHANGED <<totalPoints, appts, stripe, events, ops, faults,
                   debited, refunds, credits>>

(* --------------------- handleSuccessfulPayment ----------------------- *)
\* variant of HspFound: the early return reports the base points only
HspFoundBaseOnly(rec) ==
    IF purchase.status = "none"
    THEN [rec EXCEPT !.pc = "done", !.result = "not_found"]
    ELSE IF purchase.status = "succeeded"
    THEN [rec EXCEPT !.pc = "done", !.seen = "succeeded",
                     !.points = purchase.pointsAwarded,
                     !.result = "already_processed"]
    ELSE [rec EXCEPT !.pc = "hsp_mark", !.seen = purchase.status]

\* Purchase.findOne and the idempotency check: only 'succeeded' returns
HspFound(rec) ==
    IF purchase.status = "none"
    THEN [rec EXCEPT !.pc = "done", !.result = "not_found"]
    ELSE IF purchase.status = "succeeded"
    THEN [rec EXCEPT !.pc = "done", !.seen = "succeeded",
                     !.points = purchase.pointsAwarded + purchase.bonusPointsAwarded,
                     !.result = "already_processed"]
    ELSE [rec EXCEPT !.pc = "hsp_mark", !.seen = purchase.status]

HspFind(r) ==
    /\ req[r].pc = "hsp_find"
    /\ req' = [req EXCEPT ![r] = Settle(HspFound(req[r]))]
    /\ UNCHANGED <<totalPoints, appts, purchase, stripe, events, ops, faults,
                   debited, refunds, credits, entered>>

\* purchase.status = 'processing'; purchase.save()
HspMark(r) ==
    /\ req[r].pc = "hsp_mark"
    /\ purchase' = IF req[r].seen = "processing" THEN purchase
                   ELSE [purchase EXCEPT !.status = "processing"]
    /\ Goto(r, "hsp_credit")
    /\ UNCHANGED <<totalPoints, appts, stripe, events, ops, faults,
                   debited, refunds, credits, entered>>

totalPointsToAward == PackPointsIncluded + PackBonusPoints

\* variant of HspCredit: the increment leaves the bonus points out
HspCreditBaseOnly(r) ==
    /\ req[r].pc = "hsp_credit"
    /\ totalPoints' = [totalPoints EXCEPT ![PurchaseOwner] = @ + PackPointsIncluded]
    /\ credits' = credits + 1
    /\ req' = [req EXCEPT ![r].pc = "hsp_succeed", ![r].credited = TRUE,
                          ![r].points = totalPointsToAward]
    /\ UNCHANGED <<appts, purchase, stripe, events, ops, faults,
                   debited, refunds, entered>>

\* User.findByIdAndUpdate(user._id, {$inc: {totalPoints: totalPointsToAward}})
HspCredit(r) ==
    /\ req[r].pc = "hsp_credit"
    /\ totalPoints' = [totalPoints EXCEPT ![PurchaseOwner] = @ + totalPointsToAward]
    /\ credits' = credits + 1
    /\ req' = [req EXCEPT ![r].pc = "hsp_succeed", ![r].credited = TRUE,
                          ![r].points = totalPointsToAward]
    /\ UNCHANGED <<appts, purchase, stripe, events, ops, faults,
                   debited, refunds, entered>>

\* status 'succeeded' and the awarded amounts, saved
HspSucceed(r) ==
    /\ req[r].pc = "hsp_succeed"
    /\ purchase' = [status |-> "succeeded",
                    pointsAwarded |-> PackPointsIncluded,
                    bonusPointsAwarded |-> PackBonusPoints]
    /\ entered' = IF purchase.status = "succeeded" THEN entered ELSE entered + 1
    /\ Finish(r, "completed")
    /\ UNCHANGED <<totalPoints, appts, stripe, events, ops, faults,
                   debited, refunds, credits>>

\* a storage call of handleSuccessfulPayment rejects: control passes to
\* its catch block
HspFails(r) ==
    /\ req[r].pc \in {"hsp_mark", "hsp_credit", "hsp_succeed"}
    /\ faults < MaxFaults
    /\ faults' = faults + 1
    /\ Goto(r, "hsp_rollback")
    /\ UNCHANGED <<totalPoints, appts, purchase, stripe, events, ops,
                   debited, refunds, credits, entered>>

\* the catch block: status 'failed', then the error is rethrown
HspRollback(r) ==
    /\ req[r].pc = "hsp_rollback"
    /\ SetPurchaseStatus("failed")
    /\ Finish(r, "processing_error")
    /\ UNCHANGED <<totalPoints, appts, stripe, events, ops, faults,
                   debited, refunds, credits>>

\* the catch block's own findOneAndUpdate rejects: its inner catch logs
\* the rollback error, the Purchase stays as it is, the error is rethrown
HspRollbackFails(r) ==
    /\ req[r].pc = "hsp_rollback"
    /\ faults < MaxFaults
    /\ faults' = faults + 1
    /\ Finish(r, "processing_error")
    /\ UNCHANGED <<totalPoints, appts, purchase, stripe, events, ops,
                   debited, refunds, credits, entered>>

(* ------------------------ handleStripeWebhook ------------------------ *)
\* payment_intent.succeeded: handleSuccessfulPayment, from its findOne
WebhookSucceeded(r) ==
    /\ "succeeded" \in events
    /\ Begin(r, HspFound([Idle EXCEPT !.op = "webhook", !.event = "succeeded"]))
    /\ UNCHANGED <<totalPoints, appts, purchase, stripe, events, faults,
                   debited, refunds, credits, entered>>

\* payment_intent.payment_failed: one findOneAndUpdate
WebhookFailed(r) ==
    /\ "payment_failed" \in events
    /\ Begin(r, [Idle EXCEPT !.op = "webhook", !.event = "payment_failed",
                             !.pc = "done", !.result = "received"])
    /\ SetPurchaseStatus("failed")
    /\ UNCHANGED <<totalPoints, appts, stripe, events, faults,
                   debited, refunds, credits>>

\* payment_intent.canceled: one findOneAndUpdate
WebhookCanceled(r) ==
    /\ "canceled" \in events
    /\ Begin(r, [Idle EXCEPT !.op = "webhook", !.event = "canceled",
                             !.pc = "done", !.result = "received"])
    /\ SetPurchaseStatus("canceled")
    /\ UNCHANGED <<totalPoints, appts, stripe, events, faults,
                   debited, refunds, credits>>

(* -------------------------- confirmPurchase -------------------------- *)
\* Purchase.findOne({stripePaymentIntentId, userId}) and the two early
\* answers
ConfirmFound(rec) ==
    [rec EXCEPT
        !.seen = purchase.status,
        !.points = IF purchase.status = "succeeded"
                   THEN purchase.pointsAwarded + purchase.bonusPointsAwarded
                   ELSE 0,
        !.pc = IF purchase.status \in {"none", "succeeded", "processing"}
               THEN "done" ELSE "confirm_stripe",
        !.result = CASE purchase.status = "none" -> "not_found"
                     [] purchase.status = "succeeded" -> "already_completed"
                     [] purchase.status = "processing" -> "in_progress"
                     [] OTHER -> "none"]

ConfirmStart(r) ==
    /\ Begin(r, ConfirmFound([Idle EXCEPT !.op = "confirm",
                                          !.userId = PurchaseOwner]))
    /\ UNCHANGED <<totalPoints, appts, purchase, stripe, events, faults,
                   debited, refunds, credits, entered>>

\* StripeService.getPaymentIntent and the branch on its status
ConfirmStripe(r) ==
    /\ req[r].pc = "confirm_stripe"
    /\ req' = [req EXCEPT
          ![r].pc = IF stripe = "succeeded" THEN "hsp_find" ELSE "done",
          ![r].result = CASE stripe = "succeeded" -> "none"
                          [] stripe = "requires_payment_method" -> "payment_requires_action"
                          [] stripe = "canceled" -> "payment_canceled"
                          [] OTHER -> "payment_incomplete"]
    /\ UNCHANGED <<totalPoints, appts, purchase, stripe, events, ops, faults,
                   debited, refunds, credits, entered>>

(* ------------------- reconcile attempts without end ------------------ *)
\* Stripe delivers payment_intent.succeeded once more: the webhook handler
\* is entered and has not yet read the Purchase
WebhookRedelivered(r) ==
    /\ "succeeded" \in events
    /\ Free(r)
    /\ req' = [req EXCEPT ![r] = [Idle EXCEPT !.op = "webhook",
                                              !.event = "succeeded",
                                              !.pc = "hsp_find"]]
    /\ UNCHANGED <<totalPoints, appts, purchase, stripe, events, ops, faults,
                   debited, refunds, credits, entered>>

\* the client calls confirmPurchase once more: the handler is entered and
\* has not yet read the Purchase
ConfirmAgain(r) ==
    /\ purchase.status # "none"
    /\ Free(r)
    /\ req' = [req EXCEPT ![r] = [Idle EXCEPT !.op = "confirm",
                                              !.userId = PurchaseOwner,
                                              !.pc = "confirm_find"]]
    /\ UNCHANGED <<totalPoints, appts, purchase, stripe, events, ops, faults,
                   debited, refunds, credits, entered>>

\* its Purchase.findOne and the two early answers
ConfirmFind(r) ==
    /\ req[r].pc = "confirm_find"
    /\ req' = [req EXCEPT ![r] = Settle(ConfirmFound(req[r]))]
    /\ UNCHANGED <<totalPoints, appts, purchase, stripe, events, ops, faults,
                   debited, refunds, credits, entered>>

ReconcileAgain == \E r \in Reqs : WebhookRedelivered(r) \/ ConfirmAgain(r)

\* the purchase flow, with reconcile attempts that may go on for ever
NextReconcile ==
    \/ createPaymentIntent
    \/ StripePaymentFails
    \/ StripePaymentSucceeds
    \/ \E r \in Reqs : CancelIntentStart(r)
    \/ \E r \in Reqs : CancelIntentUpdate(r)
    \/ \E r \in Reqs : WebhookFailed(r)
    \/ \E r \in Reqs : WebhookCanceled(r)
    \/ \E r \in Reqs : WebhookRedelivered(r)
    \/ \E r \in Reqs : ConfirmAgain(r)
    \/ \E r \in Reqs : ConfirmFind(r)
    \/ \E r \in Reqs : ConfirmStripe(r)
    \/ \E r \in Reqs : HspFind(r)
    \/ \E r \in Reqs : HspMark(r)
    \/ \E r \in Reqs : HspCredit(r)
    \/ \E r \in Reqs : HspSucceed(r)
    \/ \E r \in Reqs : HspFails(r)
    \/ \E r \in Reqs : HspRollback(r)
    \/ \E r \in Reqs : HspRollbackFails(r)

\* every handler that has been entered runs on to its answer, and reconcile
\* attempts, of one kind or the other, keep being made
FairReconcile ==
    /\ \A r \in Reqs :
          /\ WF_vars(ConfirmFind(r))
          /\ WF_vars(ConfirmStripe(r))
          /\ WF_vars(HspFind(r))
          /\ WF_vars(HspMark(r))
          /\ WF_vars(HspCredit(r))
          /\ WF_vars(HspSucceed(r))
          /\ WF_vars(HspRollback(r))
          /\ WF_vars(CancelIntentUpdate(r))
    /\ WF_vars(ReconcileAgain)

SpecReconcile == Init /\ [][NextReconcile]_vars /\ FairReconcile

(* ------------------------------- Next -------------------------------- *)
Next ==
    \/ \E r \in Reqs, u \in Users, d \in DayOffsets, t \in Tods, s \in ServiceTypes :
          BookStart(r, u, MkDate(d, t), s)
    \/ \E r \in Reqs : BookFindSlot(r)
    \/ \E r \in Reqs : BookReadUser(r)
    \/ \E r \in Reqs : BookCreate(r)
    \/ \E r \in Reqs : BookDebit(r)
    \/ \E r \in Reqs : BookDebitFails(r)
    \/ \E r \in Reqs, u \in Users, id \in 1..MaxOps : CancelStart(r, u, id)
    \/ \E r \in Reqs : CancelSave(r)
    \/ \E r \in Reqs : CancelRefund(r)
    \/ \E r \in Reqs : CancelRefundFails(r)
    \/ \E r \in Reqs, id \in 1..MaxOps : AdminCancelStart(r, id)
    \/ \E r \in Reqs : AdminCancelSave(r)
    \/ \E r \in Reqs, u \in Users, o \in {"add", "subtract", "set"} :
          AdminPointsStart(r, u, o)
    \/ \E r \in Reqs : AdminPointsSave(r)
    \/ createPaymentIntent
    \/ StripePaymentFails
    \/ StripePaymentSucceeds
    \/ \E r \in Reqs : CancelIntentStart(r)
    \/ \E r \in Reqs : CancelIntentUpdate(r)
    \/ \E r \in Reqs : WebhookSucceeded(r)
    \/ \E r \in Reqs : WebhookFailed(r)
    \/ \E r \in Reqs : WebhookCanceled(r)
    \/ \E r \in Reqs : ConfirmStart(r)
    \/ \E r \in Reqs : ConfirmStripe(r)
    \/ \E r \in Reqs : HspFind(r)
    \/ \E r \in Reqs : HspMark(r)
    \/ \E r \in Reqs : HspCredit(r)
    \/ \E r \in Reqs : HspSucceed(r)
    \/ \E r \in Reqs : HspFails(r)
    \/ \E r \in Reqs : HspRollback(r)
    \/ \E r \in Reqs : HspRollbackFails(r)

Spec == Init /\ [][Next]_vars

\* the server while no admin points operation runs
NextLedger ==
    \/ \E r \in Reqs, u \in Users, d \in DayOffsets, t \in Tods, s \in ServiceTypes :
          BookStart(r, u, MkDate(d, t), s)
    \/ \E r \in Reqs : BookFindSlot(r)
    \/ \E r \in Reqs : BookReadUser(r)
    \/ \E r \in Reqs : BookCreate(r)
    \/ \E r \in Reqs : BookDebit(r)
    \/ \E r \in Reqs : BookDebitFails(r)
    \/ \E r \in Reqs, u \in Users, id \in 1..MaxOps : CancelStart(r, u, id)
    \/ \E r \in Reqs : CancelSave(r)
    \/ \E r \in Reqs : CancelRefund(r)
    \/ \E r \in Reqs : CancelRefundFails(r)
    \/ \E r \in Reqs, id \in 1..MaxOps : AdminCancelStart(r, id)
    \/ \E r \in Reqs : AdminCancelSave(r)
    \/ createPaymentIntent
    \/ StripePaymentFails
    \/ StripePaymentSucceeds
    \/ \E r \in Reqs : CancelIntentStart(r)
    \/ \E r \in Reqs : CancelIntentUpdate(r)
    \/ \E r \in Reqs : WebhookSucceeded(r)
    \/ \E r \in Reqs : WebhookFailed(r)
    \/ \E r \in Reqs : WebhookCanceled(r)
    \/ \E r \in Reqs : ConfirmStart(r)
    \/ \E r \in Reqs : ConfirmStripe(r)
    \/ \E r \in Reqs : HspFind(r)
    \/ \E r \in Reqs : HspMark(r)
    \/ \E r \in Reqs : HspCredit(r)
    \/ \E r \in Reqs : HspSucceed(r)
    \/ \E r \in Reqs : HspFails(r)
    \/ \E r \in Reqs : HspRollback(r)
    \/ \E r \in Reqs : HspRollbackFails(r)

SpecLedger == Init /\ [][NextLedger]_vars

(* ------------------- bookings on a calendar in use ------------------- *)
\* appointments booked earlier, each created by bookAppointment (confirmed,
\* priced, debited): user 1 holds the first NumSeeded slots of today and had
\* one appointment yesterday, which has since been set to completed; other
\* users hold the four slots of the last day requests reach; the last record
\* is a booking of today's first slot that user 1 cancelled, with its refund,
\* before booking the slot again
EarlierBooking(u, day, k, status) ==
    [userId |-> u, serviceType |-> "basic",
     appointmentDate |-> MkDate(day, 0), timeSlot |-> getTimeSlots[k],
     status |-> status,
     price |-> calculateAppointmentPrice("basic", MkDate(day, 0))]

SeedAppts ==
    [i \in 1..(NumSeeded + 1 + Len(getTimeSlots) + 1) |->
        IF i <= NumSeeded THEN EarlierBooking(1, 0, i, "confirmed")
        ELSE IF i = NumSeeded + 1 THEN EarlierBooking(1, 0 - 1, 1, "completed")
        ELSE IF i <= NumSeeded + 1 + Len(getTimeSlots)
        THEN EarlierBooking(Holder(i - NumSeeded - 1), MaxAhead,
                            i - NumSeeded - 1, "confirmed")
        ELSE EarlierBooking(1, 0, 1, "cancelled")]

InitBooked ==
    /\ totalPoints = [u \in Users |-> InitPoints]
    /\ appts = SeedAppts
    /\ purchase = [status |-> "none", pointsAwarded |-> 0, bonusPointsAwarded |-> 0]
    /\ stripe = "none"
    /\ events = {}
    /\ req = [r \in Reqs |-> Idle]
    /\ ops = 0
    /\ faults = 0
    /\ debited = DOMAIN SeedAppts
    /\ refunds = [i \in DOMAIN SeedAppts |->
                     IF SeedAppts[i].status = "cancelled" THEN 1 ELSE 0]
    /\ credits = 0
    /\ entered = 0

\* the appointment handlers: bookAppointment and the two cancelAppointment
NextBooking ==
    \/ \E r \in Reqs, u \in Users, d \in DayOffsets, t \in Tods, s \in ServiceTypes :
          BookStart(r, u, MkDate(d, t), s)
    \/ \E r \in Reqs : BookFindSlot(r)
    \/ \E r \in Reqs : BookReadUser(r)
    \/ \E r \in Reqs : BookCreate(r)
    \/ \E r \in Reqs : BookDebit(r)
    \/ \E r \in Reqs : BookDebitFails(r)
    \/ \E r \in Reqs, u \in Users, id \in 1..(Len(SeedAppts) + MaxOps) : CancelStart(r, u, id)
    \/ \E r \in Reqs : CancelSave(r)
    \/ \E r \in Reqs : CancelRefund(r)
    \/ \E r \in Reqs : CancelRefundFails(r)
    \/ \E r \in Reqs, id \in 1..(Len(SeedAppts) + MaxOps) : AdminCancelStart(r, id)
    \/ \E r \in Reqs : AdminCancelSave(r)

SpecBooking == InitBooked /\ [][NextBooking]_vars

(* --------------------------- notifications --------------------------- *)
\* a send that fails and whose failure reaches the handler that started it
sendEmailThrows(r, field, ok) ==
    /\ req[r][field] = "pending"
    /\ req' = [req EXCEPT ![r] =
                 IF ok THEN [@ EXCEPT ![field] = "sent"]
                 ELSE [@ EXCEPT ![field] = "failed", !.result = "error500"]]
    /\ UNCHANGED <<totalPoints, appts, purchase, stripe, events, ops, faults,
                   debited, refunds, credits, entered>>

\* EmailService.sendEmail, started by a handler that has answered: it
\* resolves true when the transport accepted the message and false, after
\* logging, when anything in it threw
sendEmail(r, field, ok) ==
    /\ req[r][field] = "pending"
    /\ req' = [req EXCEPT ![r][field] = IF ok THEN "sent" ELSE "failed"]
    /\ UNCHANGED <<totalPoints, appts, purchase, stripe, events, ops, faults,
                   debited, refunds, credits, entered>>

\* the appointment handlers and the emails they start
NextNotify ==
    \/ NextBooking
    \/ \E r \in Reqs, field \in {"mail", "notice"}, ok \in BOOLEAN :
          sendEmail(r, field, ok)

SpecNotify == InitBooked /\ [][NextNotify]_vars

(* ----------------- the booking window on any calendar ---------------- *)
\* a calendar on which other users hold the first full[d] slots of each day
\* d from today to today + 3 months
RECURSIVE CalendarUpTo(_, _)
CalendarUpTo(full, d) ==
    IF d < 0 THEN <<>>
    ELSE CalendarUpTo(full, d - 1) \o
         [k \in 1..full[d] |->
             EarlierBooking(Holder(Len(getTimeSlots) * d + k), d, k, "confirmed")]

InitWindow ==
    /\ totalPoints = [u \in Users |-> InitPoints]
    /\ appts \in {CalendarUpTo(full, ThreeMonths) :
                     full \in [0..ThreeMonths -> 0..Len(getTimeSlots)]}
    /\ purchase = [status |-> "none", pointsAwarded |-> 0, bonusPointsAwarded |-> 0]
    /\ stripe = "none"
    /\ events = {}
    /\ req = [r \in Reqs |-> Idle]
    /\ ops = 0
    /\ faults = 0
    /\ debited = DOMAIN appts
    /\ refunds = [i \in DOMAIN appts |-> 0]
    /\ credits = 0
    /\ entered = 0

\* booking requests for any date up to past today + 6 months
NextWindow ==
    \E r \in Reqs, u \in Users, d \in WindowDays, t \in Tods, s \in ServiceTypes :
        BookStart(r, u, MkDate(d, t), s)

SpecWindow == InitWindow /\ [][NextWindow]_vars

(* ------------------------ the price of any date ---------------------- *)
PricingDays == (0 - MaxBack)..(HolidayOffset + 5)

\* calculateAppointmentPrice(serviceType, requestedDate), as bookAppointment
\* calls it, applied to any date and kept as the handler's price
PriceAppointment(r, date, serviceType) ==
    /\ Free(r)
    /\ ops < MaxOps
    /\ ops' = ops + 1
    /\ req' = [req EXCEPT ![r] =
                  [Idle EXCEPT !.op = "price", !.pc = "done", !.date = date,
                               !.serviceType = serviceType,
                               !.price = calculateAppointmentPrice(serviceType, date)]]
    /\ UNCHANGED <<totalPoints, appts, purchase, stripe, events, faults,
                   debited, refunds, credits, entered>>

NextPricing ==
    \E r \in Reqs, d \in PricingDays, t \in Tods, s \in ServiceTypes :
        PriceAppointment(r, MkDate(d, t), s)

SpecPricing == Init /\ [][NextPricing]_vars

(* ------------------------------ claims ------------------------------- *)
ActiveIn(day, slot) ==
    {i \in ApptIds : /\ appts[i].appointmentDate.day = day
                     /\ appts[i].timeSlot = slot
                     /\ IsActive(appts[i])}

\* C1: no double-booking: for each calendar date and each of the four time
\* slots at most one appointment is pending, confirmed or in_progress.
C1_NoDoubleBooking ==
    \A day \in DayOffsets : \A k \in DOMAIN getTimeSlots :
        Cardinality(ActiveIn(day, getTimeSlots[k])) <= 1

\* C2: non-negative balance: every user's totalPoints is >= 0 in every
\* reachable state.
C2_NonNegativeBalance ==
    \A u \in Users : totalPoints[u] >= 0

\* C3: exactly-once crediting: over all reconcile attempts on the payment
\* reference the pack's points are credited once in total, never twice, and
\* once when an attempt has reported the purchase completed.
C3_ExactlyOnceCrediting ==
    /\ credits <= 1
    /\ (\E r \in Reqs : req[r].result = "completed") => credits = 1

\* C4: book is one unit of work: in every state, an appointment that exists
\* has had its price debited from its user's balance.
C4_BookUnitOfWork ==
    \A i \in ApptIds : i \in debited

\* C5: cancel is one unit of work: in every state, an appointment is
\* cancelled with its price credited back once, or not cancelled with
\* nothing credited back.
C5_CancelUnitOfWork ==
    \A i \in ApptIds :
        IF appts[i].status = "cancelled" THEN refunds[i] = 1 ELSE refunds[i] = 0

BookedIn(r, slot) ==
    /\ req[r].appt \in ApptIds
    /\ appts[req[r].appt].timeSlot = slot

SameSlotRace(r1, r2) ==
    /\ r1 # r2
    /\ req[r1].op = "book" /\ req[r2].op = "book"
    /\ req[r1].pc = "done" /\ req[r2].pc = "done"
    /\ req[r1].date = req[r2].date
    /\ req[r1].timeSlot # "null"
    /\ req[r1].timeSlot = req[r2].timeSlot
    /\ req[r1].result # "insufficient_points"
    /\ req[r2].result # "insufficient_points"

\* C6: of two bookings for the same date that read the same free slot, one
\* ends with the appointment in that slot and the other ends with an
\* appointment in another slot or is answered conflict / no availability,
\* never with a generic failure.
C6_LostRaceReported ==
    \A r1 \in Reqs, r2 \in Reqs :
        (SameSlotRace(r1, r2) /\ BookedIn(r1, req[r1].timeSlot)) =>
            /\ ~BookedIn(r2, req[r1].timeSlot)
            /\ \/ req[r2].appt \in ApptIds
               \/ req[r2].result \in {"conflict", "no_slot"}

\* C7: over any number of owner cancel requests for one appointment its
\* price is credited back at most once, and no two of them both answer
\* that they cancelled it.
C7_RefundOnce ==
    /\ \A i \in ApptIds : refunds[i] <= 1
    /\ \A r1 \in Reqs, r2 \in Reqs :
          (/\ r1 # r2
           /\ req[r1].op = "cancel" /\ req[r2].op = "cancel"
           /\ req[r1].appt = req[r2].appt
           /\ req[r1].result = "cancelled") => req[r2].result # "cancelled"

\* C8: every cancellation that answers success, the owner's or the admin's,
\* has credited the appointment's price to the owning user.
C8_CancelRefunds ==
    \A r \in Reqs :
        (/\ req[r].op \in {"cancel", "admin_cancel"}
         /\ req[r].result = "cancelled") => req[r].credited

\* C9: the Purchase becomes succeeded at most once, and once it is succeeded
\* its status, pointsAwarded and bonusPointsAwarded never change.
C9_SucceededIsFinal ==
    [][/\ purchase.status = "succeeded" => purchase' = purchase
       /\ entered' <= 1]_vars

\* C10: a reconcile attempt that found the Purchase in processing has
\* answered in-progress, credits nothing and writes nothing, on the
\* confirmPurchase path and on the webhook path.
C10_ProcessingBlocks ==
    \A r \in Reqs :
        req[r].seen = "processing" =>
            /\ req[r].pc = "done"
            /\ req[r].result = "in_progress"
            /\ ~req[r].credited

IsReconcile(rec) == rec.op \in {"webhook", "confirm"}

\* C12: a reconcile attempt that found the payment succeeded at Stripe and
\* the Purchase not succeeded raises the owner's balance by exactly
\* pointsIncluded + bonusPoints in one step, and when it answers completed
\* the Purchase is succeeded with pointsAwarded = pointsIncluded and
\* bonusPointsAwarded = bonusPoints (the pack {2800, 500}: 3300 points).
C12_ReconcileCredits ==
    [][\A r \in Reqs :
          /\ (IsReconcile(req'[r]) /\ req'[r].credited /\ ~req[r].credited) =>
                 /\ stripe = "succeeded"
                 /\ req[r].seen # "succeeded"
                 /\ totalPoints' = [totalPoints EXCEPT ![PurchaseOwner] =
                                       @ + PackPointsIncluded + PackBonusPoints]
                 /\ totalPoints'[PurchaseOwner] - totalPoints[PurchaseOwner] = 3300
          /\ (req'[r].result = "completed" /\ req[r].result # "completed") =>
                 /\ req[r].credited
                 /\ req'[r].points = PackPointsIncluded + PackBonusPoints
                 /\ purchase' = [status |-> "succeeded",
                                 pointsAwarded |-> PackPointsIncluded,
                                 bonusPointsAwarded |-> PackBonusPoints]]_vars

C12_Witness ==
    \E r \in Reqs :
        /\ req[r].result = "completed"
        /\ purchase.status = "succeeded"
        /\ purchase.pointsAwarded = 2800 /\ purchase.bonusPointsAwarded = 500
        /\ totalPoints[PurchaseOwner] = InitPoints + 3300

InFlight(r) == req[r].pc \notin {"idle", "done"}

\* C13: when no reconcile attempt is under way, every one having returned
\* or thrown, the Purchase is not in status processing.
C13_NoStuckProcessing ==
    (\A r \in Reqs : ~InFlight(r)) => purchase.status # "processing"

\* the delta on user u's balance of the operation handler r has answered
\* with success
Delta(r, u) ==
    CASE req[r].op = "book" /\ req[r].result = "booked" /\ req[r].userId = u ->
             0 - appts[req[r].appt].price
      [] req[r].op = "cancel" /\ req[r].result = "cancelled" /\ req[r].userId = u ->
             appts[req[r].appt].price
      [] IsReconcile(req[r]) /\ req[r].result = "completed" /\ u = PurchaseOwner ->
             PackPointsIncluded + PackBonusPoints
      [] req[r].op = "add" /\ req[r].result = "updated" /\ req[r].userId = u ->
             AdminPoints
      [] req[r].op = "subtract" /\ req[r].result = "updated" /\ req[r].userId = u ->
             0 - AdminPoints
      [] OTHER -> 0

RECURSIVE DeltaSum(_, _)
DeltaSum(n, u) == IF n = 0 THEN 0 ELSE Delta(n, u) + DeltaSum(n - 1, u)

\* every handler has served exactly one request, a ledger operation, and
\* answered it; no storage call was rejected
LedgerRunOver ==
    /\ ops = NumReq
    /\ faults = 0
    /\ \A r \in Reqs :
          /\ req[r].pc = "done"
          /\ req[r].op \in {"book", "cancel", "webhook", "confirm", "add", "subtract"}

\* C14: no lost updates: after any interleaving of booking debits,
\* cancellation refunds, purchase credits and admin adds or subtracts, a
\* user's totalPoints equals the initial balance plus the deltas of the
\* operations that answered success.
C14_NoLostUpdates ==
    LedgerRunOver =>
        \A u \in Users : totalPoints[u] = InitPoints + DeltaSum(NumReq, u)

\* C15: appointment cap: in every reachable state no user owns more than 3
\* appointments whose status is pending, confirmed or in_progress.
C15_AppointmentCap ==
    \A u \in Users :
        Cardinality({i \in ApptIds : appts[i].userId = u /\ IsActive(appts[i])}) <= 3

Terminal(a) == a.status \in {"cancelled", "completed"}

\* C16: a cancel request, the owner's or the admin's, for an appointment
\* that is cancelled or completed is answered with the rejection at once
\* and its step changes no appointment and no balance; and an appointment
\* that is cancelled or completed keeps its status in every step.
C16_TerminalStaysTerminal ==
    [][/\ \A r \in Reqs :
            (/\ ops' = ops + 1
             /\ req'[r] # req[r]
             /\ req'[r].op \in {"cancel", "admin_cancel"}
             /\ Terminal(appts[req'[r].appt])) =>
                /\ req'[r].pc = "done"
                /\ req'[r].result \in {"already_cancelled", "completed", "not_found"}
                /\ req'[r].result = "already_cancelled" =>
                       appts[req'[r].appt].status = "cancelled"
                /\ req'[r].result = "completed" =>
                       appts[req'[r].appt].status = "completed"
                /\ appts' = appts
                /\ totalPoints' = totalPoints
       /\ \A i \in ApptIds :
            Terminal(appts[i]) => appts'[i].status = appts[i].status]_vars

C16_Witness ==
    \E r1 \in Reqs, r2 \in Reqs :
        /\ req[r1].op = "cancel" /\ req[r1].result = "already_cancelled"
        /\ req[r2].op = "admin_cancel" /\ req[r2].result = "completed"

\* slot is, in the declared order, the first one no active appointment of
\* the day holds
IsFirstFreeSlot(slot, day) ==
    \E k \in DOMAIN getTimeSlots :
        /\ getTimeSlots[k] = slot
        /\ ActiveIn(day, slot) = {}
        /\ \A j \in 1..(k - 1) : ActiveIn(day, getTimeSlots[j]) # {}

\* C17: a booking that passes the checks is allotted the first slot of
\* 14:00-16:00, 16:00-18:00, 18:00-20:00, 20:00-22:00 free on its date when
\* it looks the slot up; it creates one appointment, confirmed, in that slot,
\* priced calculateAppointmentPrice(serviceType, date); and the step that
\* answers success lowers the user's balance by exactly that price.
C17_BookingEffects ==
    [][\A r \in Reqs :
          /\ (req[r].pc = "book_slot" /\ req'[r].pc = "book_user") =>
                 IsFirstFreeSlot(req'[r].timeSlot, req[r].date.day)
          /\ (req[r].pc = "book_create" /\ req'[r].pc = "book_debit") =>
                 /\ Len(appts') = Len(appts) + 1
                 /\ SubSeq(appts', 1, Len(appts)) = appts
                 /\ req'[r].appt = Len(appts')
                 /\ appts'[Len(appts')] =
                       [userId |-> req[r].userId,
                        serviceType |-> req[r].serviceType,
                        appointmentDate |-> req[r].date,
                        timeSlot |-> req[r].timeSlot,
                        status |-> "confirmed",
                        price |-> calculateAppointmentPrice(req[r].serviceType,
                                                            req[r].date)]
                 /\ totalPoints' = totalPoints
          /\ (req'[r].result = "booked" /\ req[r].result # "booked") =>
                 /\ req[r].pc = "book_debit"
                 /\ appts' = appts
                 /\ appts[req[r].appt].userId = req[r].userId
                 /\ totalPoints' = [totalPoints EXCEPT ![req[r].userId] =
                                       @ - appts[req[r].appt].price]]_vars

\* a user with 2000 points has booked basic on a weekday: price 1000,
\* balance 1000
C17_Witness ==
    \E r \in Reqs :
        /\ req[r].result = "booked"
        /\ InitPoints = 2000
        /\ appts[req[r].appt].serviceType = "basic"
        /\ getDateType(appts[req[r].appt].appointmentDate) = "weekday"
        /\ appts[req[r].appt].status = "confirmed"
        /\ appts[req[r].appt].price = 1000
        /\ totalPoints[req[r].userId] = 1000

BookingRejections ==
    {"window_rejected", "limit_reached", "no_slot", "insufficient_points"}

\* C18: a booking rejected by a check (booking window, three active
\* appointments, no free slot, balance below the price) has created no
\* appointment, and the step that rejects it leaves every balance and
\* every appointment unchanged.
C18_RejectedBookingWritesNothing ==
    [][\A r \in Reqs :
          (/\ req'[r] # req[r]
           /\ req'[r].op = "book"
           /\ req'[r].result \in BookingRejections) =>
              /\ req[r].pc \in {"idle", "done", "book_slot", "book_user"}
              /\ req'[r].appt = 0
              /\ appts' = appts
              /\ totalPoints' = totalPoints
              /\ debited' = debited]_vars

C18_Witness ==
    \E r1 \in Reqs, r2 \in Reqs :
        /\ req[r1].op = "book" /\ req[r1].result = "no_slot"
        /\ req[r2].op = "book" /\ req[r2].result = "insufficient_points"

\* the slots held on a day by appointments that are pending, confirmed or
\* in_progress
HeldSlots(day) ==
    {appts[i].timeSlot :
        i \in {j \in ApptIds : /\ appts[j].appointmentDate.day = day
                                /\ appts[j].status \in {"pending", "confirmed",
                                                         "in_progress"}}}

\* what findAvailableSlot owes for one date on the calendar as it stands
SlotContract(date) ==
    LET slot == findAvailableSlot(date)
        held == HeldSlots(date.day)
    IN  /\ slot = "null" <=> \A k \in 1..4 : getTimeSlots[k] \in held
        /\ slot # "null" =>
              \E k \in 1..4 : /\ getTimeSlots[k] = slot
                               /\ slot \notin held
                               /\ \A j \in 1..(k - 1) : getTimeSlots[j] \in held

\* C19: on every calendar reached and for every date, findAvailableSlot
\* returns the first slot in declared order that no active appointment of
\* the date holds, null exactly when all four are held, never a held slot;
\* and the step that looks the slot up writes no appointment and no balance.
C19_FindAvailableSlot ==
    [][/\ \A d \in DayOffsets, t \in Tods : SlotContract(MkDate(d, t))
       /\ \A r \in Reqs :
            (req[r].pc = "book_slot" /\ req'[r].pc # "book_slot") =>
                /\ req'[r].timeSlot = findAvailableSlot(req[r].date)
                /\ appts' = appts
                /\ totalPoints' = totalPoints]_vars

\* one lookup returned null on the full day, another the third slot
C19_Witness ==
    \E r1 \in Reqs, r2 \in Reqs :
        /\ req[r1].op = "book" /\ req[r1].result = "no_slot"
        /\ req[r1].timeSlot = "null"
        /\ req[r2].op = "book" /\ req[r2].timeSlot = getTimeSlots[3]

\* every calendar date from today through today + 3 months has all four
\* slots held by active appointments
WindowFullyBooked ==
    \A d \in 0..ThreeMonths : \A k \in 1..4 : ActiveIn(d, getTimeSlots[k]) # {}

\* C20: a booking for a date later than today + 3 months passes
\* validateBookingWindow if and only if every date from today through
\* today + 3 months is fully booked and the date is at most today + 6
\* months; with the window not fully booked it is rejected with the
\* 3-month message, with it fully booked and the date beyond 6 months with
\* the 6-month message.
C20_WindowExtension ==
    \A r \in Reqs :
        (req[r].op = "book" /\ req[r].date.day > ThreeMonths) =>
            /\ req[r].result # "window_rejected" <=>
                   (WindowFullyBooked /\ req[r].date.day <= SixMonths)
            /\ ~WindowFullyBooked => req[r].message = "within_3_months"
            /\ (WindowFullyBooked /\ req[r].date.day > SixMonths) =>
                   req[r].message = "within_6_months"

\* C21: for a requested date on or before today + 3 months the verdict of
\* validateBookingWindow is the same on every calendar: rejected, as in the
\* past, when the date is before today, accepted otherwise.
C21_WindowByDateOnly ==
    \A r \in Reqs :
        (req[r].op = "book" /\ req[r].date.day <= ThreeMonths) =>
            /\ req[r].result = "window_rejected" <=> req[r].date.day < 0
            /\ req[r].date.day < 0 => req[r].message = "past"
            /\ req[r].date.day >= 0 => req[r].message = "none"

\* on a calendar with appointments, one request for yesterday was rejected
\* and one for the last day of the window passed
C21_Witness ==
    \E r1 \in Reqs, r2 \in Reqs :
        /\ appts # <<>>
        /\ req[r1].op = "book" /\ req[r1].date.day = 0 - 1
        /\ req[r1].message = "past"
        /\ req[r2].op = "book" /\ req[r2].date.day = ThreeMonths
        /\ req[r2].result # "window_rejected"

\* the price the pricing rule gives a service on a calendar day: the base
\* on a weekday, round(1.5 x base) on a Saturday or Sunday, round(2.0 x
\* base) on a listed holiday, the holiday winning
RulePrice(serviceType, day) ==
    LET weekend == (TodayDow + day + 7) % 7 \in {0, 6}
    IN  IF serviceType = "basic"
        THEN (IF day \in ListedHolidays THEN 2000 ELSE IF weekend THEN 1500 ELSE 1000)
        ELSE (IF day \in ListedHolidays THEN 2800 ELSE IF weekend THEN 2100 ELSE 1400)

\* C22: for each service type and each date calculateAppointmentPrice
\* returns the base price (basic 1000, deluxe 1400) on a weekday,
\* round(1.5 x base) on a weekend and round(2.0 x base) on a listed
\* holiday, a holiday on a Saturday or Sunday being priced as a holiday.
C22_PriceOfDate ==
    \A r \in Reqs :
        req[r].op = "price" =>
            req[r].price = RulePrice(req[r].serviceType, req[r].date.day)

\* C23: a notification failure never affects the primary operation: the
\* step in which an email of a booking or a cancellation succeeds or fails
\* changes no appointment, no balance and no answer, and whatever the
\* emails' outcomes the booking stays persisted, debited and answered
\* "booked", the cancellation persisted and answered "cancelled"
Notified(rec) == {rec.mail, rec.notice} \cap {"sent", "failed"} # {}

C23_NotificationIsolated ==
    [][\A r \in Reqs :
         /\ (\/ (req[r].mail # req'[r].mail
                 /\ req'[r].mail \in {"sent", "failed"})
              \/ (req[r].notice # req'[r].notice
                 /\ req'[r].notice \in {"sent", "failed"})) =>
                /\ appts' = appts
                /\ totalPoints' = totalPoints
                /\ req'[r].result = req[r].result
                /\ \A q \in Reqs \ {r} : req'[q] = req[q]
         /\ (Notified(req'[r]) /\ req'[r].op = "book") =>
                /\ req'[r].result = "booked"
                /\ req'[r].appt \in DOMAIN appts'
                /\ req'[r].appt \in debited'
         /\ (Notified(req'[r]) /\ req'[r].op \in {"cancel", "admin_cancel"}) =>
                /\ req'[r].result = "cancelled"
                /\ appts'[req'[r].appt].status = "cancelled"]_vars

C23_Witness ==
    \E r1, r2 \in Reqs :
        /\ req[r1].op = "book" /\ req[r1].result = "booked"
        /\ req[r1].mail = "failed" /\ req[r1].notice = "failed"
        /\ req[r2].op = "cancel" /\ req[r2].result = "cancelled"
        /\ req[r2].mail = "failed"

\* C24: a reconcile attempt that learns the payment failed or was canceled
\* (the payment_failed or canceled webhook event, or confirmPurchase
\* reading a canceled intent) leaves the Purchase failed, respectively
\* canceled, and the balance as it was
C24_FailureRecorded ==
    [][\A r \in Reqs :
         /\ (req'[r] # req[r] /\ req'[r].op = "webhook"
             /\ req'[r].event = "payment_failed") =>
                purchase'.status = "failed" /\ totalPoints' = totalPoints
         /\ (req'[r] # req[r] /\ req'[r].op = "webhook"
             /\ req'[r].event = "canceled") =>
                purchase'.status = "canceled" /\ totalPoints' = totalPoints
         /\ (req[r].pc = "confirm_stripe"
             /\ req'[r].result = "payment_canceled") =>
                purchase'.status = "canceled" /\ totalPoints' = totalPoints]_vars

\* C25: failed and canceled are terminal for a Purchase: a webhook event
\* or a confirmPurchase call that finds the Purchase failed or canceled
\* neither changes its status nor credits points for it
C25_FailedCanceledTerminal ==
    [][\A r \in Reqs :
         /\ (req[r].op \in {"webhook", "confirm"}
             /\ req[r].pc \notin {"idle", "done"}
             /\ req[r].seen \in {"failed", "canceled"}
             /\ req'[r] # req[r]) =>
                purchase'.status = purchase.status /\ credits' = credits
         /\ (purchase.status \in {"failed", "canceled"}
             /\ req'[r] # req[r] /\ req'[r].op = "webhook"
             /\ req'[r].event \in {"payment_failed", "canceled"}) =>
                purchase'.status = purchase.status /\ credits' = credits]_vars

\* C26: reconciliation is resumable: once the external payment has
\* succeeded, and while reconcile attempts keep being made, the Purchase
\* eventually becomes succeeded and the user is credited, whatever state
\* an earlier attempt left the Purchase in
C26_Resumable ==
    (stripe = "succeeded") ~> (purchase.status = "succeeded" /\ credits > 0)

\* C27: credit and status agree: when no reconcile attempt is in flight,
\* the points credited to the owner on account of the Purchase are
\* pointsAwarded + bonusPointsAwarded if the Purchase is succeeded and 0
\* otherwise; in particular a failed Purchase has credited nothing
C27_CreditMatchesStatus ==
    (\A r \in Reqs : IsReconcile(req[r]) => ~InFlight(r)) =>
        credits * totalPointsToAward =
            IF purchase.status = "succeeded"
            THEN purchase.pointsAwarded + purchase.bonusPointsAwarded
            ELSE 0

\* the prices of the first n appointments that belong to u and are not
\* cancelled
RECURSIVE SpentUpTo(_, _)
SpentUpTo(u, n) ==
    IF n = 0 THEN 0
    ELSE SpentUpTo(u, n - 1)
         + (IF appts[n].userId = u /\ appts[n].status # "cancelled"
            THEN appts[n].price ELSE 0)

Awarded(u) ==
    IF u = PurchaseOwner /\ purchase.status = "succeeded"
    THEN purchase.pointsAwarded + purchase.bonusPointsAwarded ELSE 0

\* C28: points conservation: when no request is in flight and no admin
\* points operation has run, each user's totalPoints is the initial balance
\* plus the points awarded by their succeeded purchases minus the prices of
\* their appointments that are not cancelled
C28_PointsConservation ==
    (\A r \in Reqs : ~InFlight(r)) =>
        \A u \in Users :
            totalPoints[u] = InitPoints + Awarded(u) - SpentUpTo(u, Len(appts))

\* the records of the slot of appointment a on a's calendar day
SlotRecords(a, statuses) ==
    {i \in ApptIds : /\ appts[i].appointmentDate.day = a.appointmentDate.day
                     /\ appts[i].timeSlot = a.timeSlot
                     /\ appts[i].status \in statuses}

\* C29: cancelling releases the slot: in the step that cancels the one
\* active appointment of slot s on date d, findAvailableSlot stops counting
\* s as booked on d and the unique index stops rejecting an appointment for
\* (d, s); and the save of a new appointment for a slot that only cancelled
\* records hold persists it, however many cancelled records there are
C29_CancelReleasesSlot ==
    [][/\ \A i \in DOMAIN appts :
            (/\ IsActive(appts[i])
             /\ appts'[i].status = "cancelled"
             /\ SlotRecords(appts[i], ActiveStatuses) = {i}) =>
                /\ appts[i].timeSlot \notin bookedSlots(appts[i].appointmentDate.day)'
                /\ ~DuplicateKey([appts[i] EXCEPT !.status = "confirmed"])'
       /\ \A r \in Reqs :
            (/\ req[r].pc = "book_create"
             /\ req'[r].pc # "book_create"
             /\ SlotRecords(NewAppointment(r), {"cancelled"}) # {}
             /\ SlotRecords(NewAppointment(r), ActiveStatuses) = {}) =>
                /\ appts' = Append(appts, NewAppointment(r))
                /\ req'[r].pc = "book_debit"]_vars

\* a slot with two cancelled records that is held again by an appointment
\* booked after both cancellations
C29_Witness ==
    \E i, j, k \in DOMAIN appts :
        /\ i # j /\ k > Len(SeedAppts)
        /\ appts[i].status = "cancelled" /\ appts[j].status = "cancelled"
        /\ refunds[i] > 0 /\ refunds[j] > 0
        /\ IsActive(appts[k])
        /\ {i, j} \subseteq SlotRecords(appts[k], {"cancelled"})
        /\ appts[i].appointmentDate = appts[k].appointmentDate
        /\ appts[j].appointmentDate = appts[k].appointmentDate

\* C30: slot occupancy and the unique index work at calendar-day
\* granularity: two active appointments whose appointmentDate values fall
\* on the same calendar day with different times of day never hold the same
\* slot
C30_DayGranularity ==
    \A i, j \in ApptIds :
        (/\ i # j
         /\ IsActive(appts[i]) /\ IsActive(appts[j])
         /\ appts[i].appointmentDate.day = appts[j].appointmentDate.day
         /\ appts[i].appointmentDate.tod # appts[j].appointmentDate.tod) =>
            appts[i].timeSlot # appts[j].timeSlot

====
